---- MODULE Spec2Model ----
(***************************************************************************)
(* Model of the LinUCB decision engine of the Python-ML-Engine service:    *)
(* LinUCBModel (app/services/rl_model.py), its checkpoint file, and the    *)
(* /train endpoint (app/api/endpoints.py).                                 *)
(*                                                                         *)
(* Numbers.  The program computes in float64.  The model computes in exact *)
(* arithmetic: context vectors and rewards are small integers, so every A  *)
(* and b is an integer array, and a score is kept as the exact value       *)
(*      mean + alpha * sqrt(var)   with   mean = mn/d,  var = q/d          *)
(* where d = det(A).  Rounding, overflow to inf and NaN are not modelled.  *)
(***************************************************************************)
EXTENDS Integers, Sequences, FiniteSets, TLC

\* ------------------------------------------------------------ configuration

\* LinUCBModel(alpha=1.5, ...): the exploration coefficient, as a fraction.
alphaNum == 3
alphaDen == 2

\* self.n_features: the dimension the instance is built with.  The service
\* builds LinUCBModel() with the default of 6; the model builds
\* LinUCBModel(n_features=2), which keeps every array operation (identity,
\* outer product, inverse, dot) on matrices that are not 1 x 1.
n_features == 2

\* The arm identifiers requests may name, in a fixed enumeration order.
ArmOrder == <<"e1", "e2">>
Arms == {ArmOrder[i] : i \in 1..Len(ArmOrder)}

\* The entries of the context vectors the requests carry.
Features == {0, 1}
\* The rewards the requests carry: below 0, 0 and above 1.
Rewards == {-1, 0, 2}
\* Number of successful update calls explored from one start of the process.
MaxUpdates == 1

\* ------------------------------------------------------------ numpy arrays
\* A 1-D array is a sequence of numbers, a 2-D array a sequence of rows.

\* An initial b of ones.
Ones(k) == [i \in 1..k |-> 1]

\* np.zeros(k)
Zeros(k) == [i \in 1..k |-> 0]

\* An initial A of twice the identity.
TwiceIdentity(k) == [i \in 1..k |-> [j \in 1..k |-> IF i = j THEN 2 ELSE 0]]

\* np.identity(k)
Identity(k) == [i \in 1..k |-> [j \in 1..k |-> IF i = j THEN 1 ELSE 0]]

\* An outer product with the entries below the diagonal left at zero.
OuterUpper(x, y) ==
    [i \in 1..Len(x) |-> [j \in 1..Len(y) |-> IF j >= i THEN x[i] * y[j] ELSE 0]]

\* np.outer(x, y)
Outer(x, y) == [i \in 1..Len(x) |-> [j \in 1..Len(y) |-> x[i] * y[j]]]

\* reward * x with the reward first clamped to [0, 1].
ScaleClamped(r, x) ==
    [i \in 1..Len(x) |-> (IF r < 0 THEN 0 ELSE IF r > 1 THEN 1 ELSE r) * x[i]]

\* reward * x with the sign of the reward turned.
ScaleNegated(r, x) == [i \in 1..Len(x) |-> (0 - r) * x[i]]

\* reward * x
Scale(r, x) == [i \in 1..Len(x) |-> r * x[i]]

\* Broadcasting of an in-place add  dst += src : every trailing dimension of
\* src equals the one of dst or is 1.
CanIAddVec(dst, src) == Len(src) = Len(dst) \/ Len(src) = 1

CanIAddMat(dst, src) ==
    /\ Len(src) = Len(dst) \/ Len(src) = 1
    /\ Len(src) >= 1
    /\ \A i \in 1..Len(src) : Len(src[i]) = Len(dst[1]) \/ Len(src[i]) = 1

\* dst += src that adds src twice.
IAddVecTwice(dst, src) ==
    [i \in 1..Len(dst) |-> dst[i] + 2 * (IF Len(src) = 1 THEN src[1] ELSE src[i])]

\* dst += src for 1-D arrays (a length-1 src is added to every entry).
IAddVec(dst, src) ==
    [i \in 1..Len(dst) |-> dst[i] + (IF Len(src) = 1 THEN src[1] ELSE src[i])]

\* dst += src for 2-D arrays.
IAddMat(dst, src) ==
    [i \in 1..Len(dst) |->
        LET row == IF Len(src) = 1 THEN src[1] ELSE src[i]
        IN  IAddVec(dst[i], row)]

\* v . w for 1-D arrays of equal length (np.dot raises otherwise).
RECURSIVE DotFrom(_, _, _)
DotFrom(v, w, i) ==
    IF i > Len(v) THEN 0 ELSE v[i] * w[i] + DotFrom(v, w, i + 1)

Dot(v, w) == DotFrom(v, w, 1)

\* M . v for a 2-D array and a 1-D array.
MatVec(M, v) == [i \in 1..Len(M) |-> Dot(M[i], v)]

\* M without row 1 and column j.
Minor(M, j) ==
    [r \in 1..(Len(M) - 1) |->
        [c \in 1..(Len(M) - 1) |-> M[r + 1][IF c < j THEN c ELSE c + 1]]]

\* det(M), by expansion along the first row.
RECURSIVE Det(_)
Det(M) ==
    IF Len(M) = 0 THEN 1
    ELSE LET term(j) == (IF j % 2 = 1 THEN 1 ELSE -1) * M[1][j] * Det(Minor(M, j))
             RECURSIVE Sum(_)
             Sum(j) == IF j > Len(M) THEN 0 ELSE term(j) + Sum(j + 1)
         IN  Sum(1)

\* M without row i and column j.
Minor2(M, i, j) ==
    [r \in 1..(Len(M) - 1) |->
        [c \in 1..(Len(M) - 1) |->
            M[IF r < i THEN r ELSE r + 1][IF c < j THEN c ELSE c + 1]]]

\* The adjugate of M: det(M) * inverse(M) when M is invertible.
Adjugate(M) ==
    [i \in 1..Len(M) |->
        [j \in 1..Len(M) |->
            (IF (i + j) % 2 = 0 THEN 1 ELSE -1) * Det(Minor2(M, j, i))]]

\* No pseudo-inverse: the quotient by the zero determinant, entries not finite.
PinvNone(M) == [num |-> M, den |-> 0]

\* np.linalg.pinv(M) for a singular M of rank at most 1 (every singular 2x2
\* matrix): transpose(M) / ||M||_F^2, and the zero matrix for M = 0.
Pinv(M) ==
    LET RECURSIVE SumSq(_, _)
        SumSq(i, j) ==
            IF i > Len(M) THEN 0
            ELSE IF j > Len(M) THEN SumSq(i + 1, 1)
            ELSE M[i][j] * M[i][j] + SumSq(i, j + 1)
        f == SumSq(1, 1)
    IN  IF f = 0
        THEN [num |-> M, den |-> 1]
        ELSE [num |-> [i \in 1..Len(M) |-> [j \in 1..Len(M) |-> M[j][i]]],
              den |-> f]

\* An A_inv that is A itself.
InvNone(M) == [num |-> M, den |-> 1]

\* A_inv of predict, as the fraction num/den with den > 0: np.linalg.inv(A),
\* and np.linalg.pinv(A) when inv raises LinAlgError (A singular).
Inv(M) ==
    LET d == Det(M)
    IN  IF d > 0 THEN [num |-> Adjugate(M), den |-> d]
        ELSE IF d < 0
        THEN [num |-> [i \in 1..Len(M) |-> [j \in 1..Len(M) |-> -Adjugate(M)[i][j]]],
              den |-> -d]
        ELSE Pinv(M)

\* ------------------------------------------------------------ scores
\* A score value is [mn, q, d] with d > 0 and q >= 0: mean = mn/d,
\* uncertainty = alpha * sqrt(q/d), score = mean + uncertainty.

\* a/b >= c/d for a, c >= 0 and b, d > 0, by Euclid's algorithm (no products).
RECURSIVE FracGE(_, _, _, _)
FracGE(a, b, c, d) ==
    LET qa == a \div b
        qc == c \div d
        ra == a % b
        rc == c % d
    IN  IF qa # qc THEN qa > qc
        ELSE IF rc = 0 THEN TRUE
        ELSE IF ra = 0 THEN FALSE
        ELSE FracGE(d, rc, b, ra)

\* w^2 >= p * v for w, p, v >= 0.
SqGE(w, p, v) ==
    IF p = 0 \/ v = 0 THEN TRUE
    ELSE IF w = 0 THEN FALSE
    ELSE FracGE(w, p, v, w)

\* w^2 <= p * v for w > 0 and p, v >= 0.
SqLE(w, p, v) ==
    IF p = 0 \/ v = 0 THEN FALSE
    ELSE FracGE(p, w, w, v)

\* D + sqrt(U) >= sqrt(V) for integers D, U >= 0, V >= 0.
RootGE(D, U, V) ==
    IF D >= 0
    THEN \/ U + D * D >= V
         \/ SqLE(V - U - D * D, 4 * D * D, U)
    ELSE /\ U - V - D * D >= 0
         /\ SqGE(U - V - D * D, 4 * D * D, V)

RECURSIVE Gcd(_, _)
Gcd(a, b) == IF b = 0 THEN a ELSE Gcd(b, a % b)

\* s1.score >= s2.score, both brought to the denominator alphaDen * lcm(d1, d2).
ScoreGE(s1, s2) ==
    LET g == Gcd(s1.d, s2.d)
        e1 == s1.d \div g
        e2 == s2.d \div g
        D == alphaDen * (s1.mn * e2 - s2.mn * e1)
        U == alphaNum * alphaNum * e2 * e2 * s1.d * s1.q
        V == alphaNum * alphaNum * e1 * e1 * s2.d * s2.q
    IN  RootGE(D, U, V)

\* s1.uncertainty >= s2.uncertainty : q1/d1 >= q2/d2.
UncertaintyGE(s1, s2) == FracGE(s1.q, s1.d, s2.q, s2.d)

\* An insertion that puts e in front of the entries of equal score.
RECURSIVE InsertDescBefore(_, _)
InsertDescBefore(sorted, e) ==
    IF sorted = <<>> THEN <<e>>
    ELSE IF ScoreGE(Head(sorted), e) /\ ~ScoreGE(e, Head(sorted))
    THEN <<Head(sorted)>> \o InsertDescBefore(Tail(sorted), e)
    ELSE <<e>> \o sorted

\* sorted(scores, key = score, reverse = True): a stable sort, so entries of
\* equal score keep their input order.
RECURSIVE InsertDesc(_, _)
InsertDesc(sorted, e) ==
    IF sorted = <<>> THEN <<e>>
    ELSE IF ScoreGE(Head(sorted), e) THEN <<Head(sorted)>> \o InsertDesc(Tail(sorted), e)
    ELSE <<e>> \o sorted

\* The scores in input order: sorted() left out.
Unsorted(scores) == scores

RECURSIVE SortedDesc(_)
SortedDesc(scores) ==
    IF scores = <<>> THEN <<>>
    ELSE InsertDesc(SortedDesc(SubSeq(scores, 1, Len(scores) - 1)), scores[Len(scores)])

\* ------------------------------------------------------------ checkpoint blob
\* The pickle stream of {'A': self.A, 'b': self.b}: a sequence of tokens
\* <<tag, payload>>.  An array is written as its shape and its entries in
\* row-major order, and is rebuilt from them on load.

\* The entries of a 2-D array, row after row.
RECURSIVE Flatten(_)
Flatten(M) == IF M = <<>> THEN <<>> ELSE Head(M) \o Flatten(Tail(M))

\* The 2-D array of `rows` rows cut from the flat data.
Reshape(data, rows, cols) ==
    [i \in 1..rows |-> [j \in 1..cols |-> data[(i - 1) * cols + j]]]

\* A numpy array of the given rank (1 or 2) as one token.
PickleArray(a, rank) ==
    IF rank = 2
    THEN <<"ndarray", [shape |-> <<Len(a), IF Len(a) = 0 THEN 0 ELSE Len(a[1])>>,
                       data |-> Flatten(a)]>>
    ELSE <<"ndarray", [shape |-> <<Len(a)>>, data |-> a]>>

\* A dict arm -> array: its size, then key and value of every entry.
RECURSIVE PickleItems(_, _, _)
PickleItems(d, rank, i) ==
    IF i > Len(ArmOrder) THEN <<>>
    ELSE (IF ArmOrder[i] \in DOMAIN d
          THEN <<<<"str", ArmOrder[i]>>, PickleArray(d[ArmOrder[i]], rank)>>
          ELSE <<>>) \o PickleItems(d, rank, i + 1)

PickleArms(d, rank) ==
    <<<<"dict", Cardinality(DOMAIN d)>>>> \o PickleItems(d, rank, 1)

\* pickle.dump({'A': A, 'b': b}, f): the bytes written to the file.
pickle_dump(Amem, bmem) ==
    <<<<"dict", 2>>, <<"str", "A">>>> \o PickleArms(Amem, 2)
        \o <<<<"str", "b">>>> \o PickleArms(bmem, 1) \o <<<<"stop", 0>>>>

\* The empty dict {} as a TLA+ function.
EmptyDict == [k \in {} |-> 0]

\* One pickled value read at position pos: [ok, kind, val, pos].
RECURSIVE ParseValue(_, _)
RECURSIVE ParseItems(_, _, _, _)
ParseValue(toks, pos) ==
    IF pos > Len(toks) THEN [ok |-> FALSE, kind |-> "eof", val |-> 0, pos |-> pos]
    ELSE LET tok == toks[pos]
         IN  CASE tok[1] = "str" ->
                    [ok |-> TRUE, kind |-> "str", val |-> tok[2], pos |-> pos + 1]
               [] tok[1] = "ndarray" ->
                    LET sh == tok[2].shape
                        size == IF Len(sh) = 1 THEN sh[1] ELSE sh[1] * sh[2]
                    IN  IF Len(tok[2].data) # size
                        THEN [ok |-> FALSE, kind |-> "bad", val |-> 0, pos |-> pos]
                        ELSE [ok |-> TRUE, kind |-> "ndarray",
                              val |-> IF Len(sh) = 1 THEN tok[2].data
                                      ELSE Reshape(tok[2].data, sh[1], sh[2]),
                              pos |-> pos + 1]
               [] tok[1] = "dict" -> ParseItems(toks, pos + 1, tok[2], EmptyDict)
               [] OTHER -> [ok |-> FALSE, kind |-> "bad", val |-> 0, pos |-> pos]

\* k more (key, value) entries of a dict, added to acc.
ParseItems(toks, pos, k, acc) ==
    IF k = 0 THEN [ok |-> TRUE, kind |-> "dict", val |-> acc, pos |-> pos]
    ELSE LET key == ParseValue(toks, pos)
         IN  IF ~key.ok \/ key.kind # "str"
             THEN [ok |-> FALSE, kind |-> "bad", val |-> 0, pos |-> pos]
             ELSE LET v == ParseValue(toks, key.pos)
                  IN  IF ~v.ok THEN v
                      ELSE ParseItems(toks, v.pos, k - 1,
                                      (key.val :> v.val) @@ acc)

\* pickle.load(f): [ok, kind, val]; ok is FALSE when load raises (truncated
\* or undecodable contents).  Bytes after the STOP opcode are not read.
pickle_load(toks) ==
    LET v == ParseValue(toks, 1)
    IN  IF v.ok /\ v.pos <= Len(toks) /\ toks[v.pos][1] = "stop"
        THEN [ok |-> TRUE, kind |-> v.kind, val |-> v.val]
        ELSE [ok |-> FALSE, kind |-> "bad", val |-> 0]

\* ------------------------------------------------------------ the file
\* The file at model_path: whether it exists, and its contents.
NoFile == [exists |-> FALSE, data |-> <<>>]
File(toks) == [exists |-> TRUE, data |-> toks]

\* ------------------------------------------------------------ LinUCBModel
\* self.A and self.b are dicts arm -> array: TLA+ functions whose DOMAIN is
\* the set of keys.

\* load_model() that restores the arms of 'b' with their learned values lost.
load_model_zero_b(file) ==
    IF ~file.exists THEN [A |-> EmptyDict, b |-> EmptyDict, how |-> "absent"]
    ELSE LET data == pickle_load(file.data)
         IN  IF \/ ~data.ok \/ data.kind # "dict"
                \/ "A" \notin DOMAIN data.val \/ "b" \notin DOMAIN data.val
             THEN [A |-> EmptyDict, b |-> EmptyDict, how |-> "failed"]
             ELSE [A |-> data.val["A"],
                   b |-> [arm_id \in DOMAIN data.val["b"] |-> Zeros(n_features)],
                   how |-> "loaded"]

\* load_model(): the (A, b) of a new instance, whose __init__ set both to {}.
\* how = "absent" (no file), "loaded", or "failed" (the except branch).
load_model(file) ==
    IF ~file.exists THEN [A |-> EmptyDict, b |-> EmptyDict, how |-> "absent"]
    ELSE LET data == pickle_load(file.data)
         IN  IF ~data.ok \/ data.kind # "dict"
             THEN [A |-> EmptyDict, b |-> EmptyDict, how |-> "failed"]
             ELSE IF "A" \notin DOMAIN data.val
             THEN [A |-> EmptyDict, b |-> EmptyDict, how |-> "failed"]
             ELSE IF "b" \notin DOMAIN data.val
             THEN [A |-> data.val["A"], b |-> EmptyDict, how |-> "failed"]
             ELSE [A |-> data.val["A"], b |-> data.val["b"], how |-> "loaded"]

\* _get_or_init_arm() that starts new dicts when it creates an arm.
get_or_init_arm_alone(Amem, bmem, arm_id) ==
    IF arm_id \notin DOMAIN Amem
    THEN [A |-> (arm_id :> Identity(n_features)),
          b |-> (arm_id :> Zeros(n_features))]
    ELSE [A |-> Amem, b |-> bmem]

\* _get_or_init_arm() that, when it creates an arm, also puts every arm of
\* the store back to (I, 0).
get_or_init_arm_reset(Amem, bmem, arm_id) ==
    IF arm_id \notin DOMAIN Amem
    THEN [A |-> (arm_id :> Identity(n_features))
                    @@ [a \in DOMAIN Amem |-> Identity(n_features)],
          b |-> (arm_id :> Zeros(n_features))
                    @@ [a \in DOMAIN bmem |-> Zeros(n_features)]]
    ELSE [A |-> Amem, b |-> bmem]

\* _get_or_init_arm() without the membership test: the arm is set to (I, 0)
\* whether or not the store holds it.
get_or_init_arm_always(Amem, bmem, arm_id) ==
    [A |-> (arm_id :> Identity(n_features)) @@ Amem,
     b |-> (arm_id :> Zeros(n_features)) @@ bmem]

\* _get_or_init_arm(arm_id)
get_or_init_arm(Amem, bmem, arm_id) ==
    IF arm_id \notin DOMAIN Amem
    THEN [A |-> (arm_id :> Identity(n_features)) @@ Amem,
          b |-> (arm_id :> Zeros(n_features)) @@ bmem]
    ELSE [A |-> Amem, b |-> bmem]

\* What open(model_path, 'wb') of save_model() can do: succeed, or raise
\* OSError (the path is not writable).
IOOutcomes == {"ok", "open_fails"}

\* save_model() that writes the file only when there is none yet.
save_model_once(Amem, bmem, file, io) ==
    IF io = "ok"
    THEN [file |-> IF file.exists THEN file ELSE File(pickle_dump(Amem, bmem)),
          raised |-> FALSE]
    ELSE [file |-> file, raised |-> TRUE]

\* save_model(): the file afterwards, and whether the call raised.
save_model(Amem, bmem, file, io) ==
    LET blob == pickle_dump(Amem, bmem)
    IN  CASE io = "ok" -> [file |-> File(blob), raised |-> FALSE]
          [] io = "open_fails" -> [file |-> file, raised |-> TRUE]

\* update() whose reward increment goes into the b of every arm of the store.
update_every_b(Amem, bmem, file, arm_id, x, reward, io) ==
    LET s1 == get_or_init_arm(Amem, bmem, arm_id)
        xx == Outer(x, x)
        rx == Scale(reward, x)
    IN  IF ~CanIAddMat(s1.A[arm_id], xx)
        THEN [A |-> s1.A, b |-> s1.b, file |-> file, raised |-> "A+="]
        ELSE LET A2 == [s1.A EXCEPT ![arm_id] = IAddMat(@, xx)]
             IN  IF arm_id \notin DOMAIN s1.b \/ ~CanIAddVec(s1.b[arm_id], rx)
                 THEN [A |-> A2, b |-> s1.b, file |-> file, raised |-> "b+="]
                 ELSE LET b2 == [a \in DOMAIN s1.b |-> IAddVec(s1.b[a], rx)]
                          w == save_model(A2, b2, file, io)
                      IN  [A |-> A2, b |-> b2, file |-> w.file,
                           raised |-> IF w.raised THEN "save" ELSE ""]

\* update(arm_id, context_vector, reward): the store and file afterwards;
\* raised names the statement that raised, "" when update returned.
update(Amem, bmem, file, arm_id, x, reward, io) ==
    LET s1 == get_or_init_arm(Amem, bmem, arm_id)
        xx == Outer(x, x)
    IN  IF ~CanIAddMat(s1.A[arm_id], xx)
        THEN [A |-> s1.A, b |-> s1.b, file |-> file, raised |-> "A+="]
        ELSE LET A2 == [s1.A EXCEPT ![arm_id] = IAddMat(@, xx)]
             IN  IF arm_id \notin DOMAIN s1.b \/ ~CanIAddVec(s1.b[arm_id], Scale(reward, x))
                 THEN [A |-> A2, b |-> s1.b, file |-> file, raised |-> "b+="]
                 ELSE LET b2 == [s1.b EXCEPT ![arm_id] = IAddVec(@, Scale(reward, x))]
                          w == save_model(A2, b2, file, io)
                      IN  [A |-> A2, b |-> b2, file |-> w.file,
                           raised |-> IF w.raised THEN "save" ELSE ""]

\* x . M for a 1-D array and a 2-D array.
VecMat(x, M) ==
    [j \in 1..Len(M[1]) |->
        LET RECURSIVE S(_)
            S(i) == IF i > Len(x) THEN 0 ELSE x[i] * M[i][j] + S(i + 1)
        IN  S(1)]

\* The LinUCB math of predict for one arm: the score entry of (A, b, x).
ScoreEntry(arm_id, Aarm, barm, x) ==
    LET A_inv == Inv(Aarm)
        theta == MatVec(A_inv.num, barm)
    IN  [id |-> arm_id,
         mn |-> Dot(theta, x),
         q |-> Dot(VecMat(x, A_inv.num), x),
         d |-> A_inv.den]

\* The loop of predict from candidate i on: the store afterwards, the entries
\* appended, and whether a statement raised.
RECURSIVE PredictLoop(_, _, _, _, _, _)
PredictLoop(Amem, bmem, arm_ids, context_vectors, i, scores) ==
    IF i > Len(arm_ids)
    THEN [A |-> Amem, b |-> bmem, scores |-> scores, raised |-> FALSE]
    ELSE LET arm_id == arm_ids[i]
             s1 == get_or_init_arm(Amem, bmem, arm_id)
         IN  IF \/ i > Len(context_vectors)
                \/ arm_id \notin DOMAIN s1.b
                \/ Len(s1.b[arm_id]) # Len(s1.A[arm_id])
                \/ Len(context_vectors[i]) # Len(s1.A[arm_id])
             THEN [A |-> s1.A, b |-> s1.b, scores |-> scores, raised |-> TRUE]
             ELSE PredictLoop(s1.A, s1.b, arm_ids, context_vectors, i + 1,
                      Append(scores, ScoreEntry(arm_id, s1.A[arm_id], s1.b[arm_id],
                                                context_vectors[i])))

\* predict() that raises when it is given no candidate.
predict_some(Amem, bmem, arm_ids, context_vectors) ==
    LET r == PredictLoop(Amem, bmem, arm_ids, context_vectors, 1, <<>>)
    IN  IF arm_ids = <<>>
        THEN [A |-> Amem, b |-> bmem, raised |-> TRUE, result |-> <<>>]
        ELSE [A |-> r.A, b |-> r.b, raised |-> r.raised,
              result |-> IF r.raised THEN <<>> ELSE SortedDesc(r.scores)]

\* predict(arm_ids, context_vectors): the store afterwards and the returned
\* list (<<>> when predict raised).
predict(Amem, bmem, arm_ids, context_vectors) ==
    LET r == PredictLoop(Amem, bmem, arm_ids, context_vectors, 1, <<>>)
    IN  [A |-> r.A, b |-> r.b, raised |-> r.raised,
         result |-> IF r.raised THEN <<>> ELSE SortedDesc(r.scores)]

\* ------------------------------------------------------------ requests
\* Context vectors of the configured length, and of a wrong length: length 1
\* and length n_features + 1.
Contexts == [1..n_features -> Features]
ShortVector == <<1>>
LongVector == [i \in 1..(n_features + 1) |-> 1]
Vectors == Contexts \cup {ShortVector, LongVector}

\* The candidate lists of predict: empty, one arm, two arms.
ArmLists == {<<>>, <<"e1">>, <<"e1", "e2">>}

\* np.array(context_vectors): one row per candidate, all rows of one length.
ContextArrays(k) ==
    {cv \in [1..k -> Vectors] : \A i \in 1..k : Len(cv[i]) = Len(cv[1])}

\* ------------------------------------------------------------ state
VARIABLES
    A,              \* model_instance.A
    b,              \* model_instance.b
    disk,           \* the file at model_instance.model_path
    decision_logs,  \* the rows of the decision_logs table: id -> feedback columns
    updates,        \* number of update calls made so far
    last,           \* the last call: what was called, with what, and how it ended
    heap,           \* concurrent calls: the array objects, by object id
    refA,           \* concurrent calls: self.A as arm -> object id
    refb,           \* concurrent calls: self.b as arm -> object id
    threads         \* concurrent calls: each thread's call and where it stands

vars == <<A, b, disk, decision_logs, updates, last, heap, refA, refb, threads>>

\* The variables of the concurrent calls.
concVars == <<heap, refA, refb, threads>>

\* The threads that serve requests.
Threads == {"t1", "t2"}

\* A thread that has not been given a call.
IdleThread ==
    [pc |-> "idle", op |-> "", arm_id |-> "", x |-> <<>>, reward |-> 0, ref |-> 0,
     usedA |-> <<>>, usedb |-> <<>>, blob |-> <<>>, raised |-> ""]

\* A record of `last` with every field at its default.
NoCall ==
    [op |-> "", raised |-> "", how |-> "", arm_id |-> "", x |-> <<>>, reward |-> 0,
     io |-> "", status |-> 0, task |-> <<>>, employee |-> <<>>, vector |-> <<>>]

\* The checkpoint a previous run of the service left after
\* update("e1", <<1, 0, ...>>, 1) on an empty store.
PriorX == [i \in 1..n_features |-> IF i = 1 THEN 1 ELSE 0]
PriorStore == update(EmptyDict, EmptyDict, NoFile, "e1", PriorX, 1, "ok")

\* The files the service can find at model_path when it starts: none, a
\* truncated checkpoint, a pickle that is no dict, a dict lacking 'b', a dict
\* lacking 'A', and a complete checkpoint.
InitialFiles ==
    {NoFile,
     File(SubSeq(PriorStore.file.data, 1, Len(PriorStore.file.data) \div 2)),
     File(<<<<"str", "garbage">>, <<"stop", 0>>>>),
     File(<<<<"dict", 1>>, <<"str", "A">>>> \o PickleArms(PriorStore.A, 2) \o <<<<"stop", 0>>>>),
     File(<<<<"dict", 1>>, <<"str", "b">>>> \o PickleArms(PriorStore.b, 1) \o <<<<"stop", 0>>>>),
     PriorStore.file}

\* The decision_logs rows the service starts with: one recommendation, no
\* feedback yet.
RecommendationIds == {"r1"}
NoFeedback == [final_action_taken |-> "", reward_value |-> 0]

\* model_instance = LinUCBModel(): the module-level singleton, built when the
\* service starts.
Init ==
    \E file \in InitialFiles :
        LET m == load_model(file)
        IN  /\ A = m.A
            /\ b = m.b
            /\ disk = file
            /\ decision_logs = [r \in RecommendationIds |-> NoFeedback]
            /\ updates = 0
            /\ last = [NoCall EXCEPT !.op = "init", !.how = m.how]
            /\ heap = <<>>
            /\ refA = EmptyDict
            /\ refb = EmptyDict
            /\ threads = [t \in Threads |-> IdleThread]

\* The process stops and starts again: a new LinUCBModel() loads the file.
Restart ==
    LET m == load_model(disk)
    IN  /\ A' = m.A
        /\ b' = m.b
        /\ last' = [NoCall EXCEPT !.op = "restart", !.how = m.how]
        /\ UNCHANGED <<disk, decision_logs, updates>>
        /\ UNCHANGED concVars

\* model_instance.predict(arm_ids, context_vectors)
Predict ==
    \E arm_ids \in ArmLists :
        \E context_vectors \in ContextArrays(Len(arm_ids)) :
            \E r \in {predict(A, b, arm_ids, context_vectors)} :
                /\ A' = r.A
                /\ b' = r.b
                /\ last' = [NoCall EXCEPT !.op = "predict",
                                          !.raised = IF r.raised THEN "predict" ELSE ""]
                /\ UNCHANGED <<disk, decision_logs, updates>>
                /\ UNCHANGED concVars

\* model_instance.update(arm_id, context_vector, reward)
Update ==
    /\ updates < MaxUpdates
    /\ \E arm_id \in Arms, x \in Vectors, reward \in Rewards, io \in IOOutcomes :
            \E r \in {update(A, b, disk, arm_id, x, reward, io)} :
                /\ A' = r.A
                /\ b' = r.b
                /\ disk' = r.file
                /\ updates' = updates + 1
                /\ last' = [NoCall EXCEPT !.op = "update", !.raised = r.raised,
                                          !.arm_id = arm_id, !.x = x,
                                          !.reward = reward, !.io = io]
                /\ UNCHANGED decision_logs
                /\ UNCHANGED concVars

\* POST /train: train_feedback(feedback).  db = FALSE when the decision_logs
\* update raises; status is the HTTP status of the response.
TrainFeedback ==
    \E rec \in RecommendationIds, emp \in Arms, reward \in {0, 1}, db \in BOOLEAN :
        /\ decision_logs' =
              IF db
              THEN [decision_logs EXCEPT ![rec] =
                       [final_action_taken |-> emp, reward_value |-> reward]]
              ELSE decision_logs
        /\ last' = [NoCall EXCEPT !.op = "train", !.arm_id = emp, !.reward = reward,
                                  !.raised = IF db THEN "" ELSE "db",
                                  !.status = IF db THEN 200 ELSE 500]
        /\ UNCHANGED <<A, b, disk, updates>>
        /\ UNCHANGED concVars

\* The model object in one service: calls of its methods, and restarts.
Next == Predict \/ Update \/ Restart

Spec == Init /\ [][Next]_vars

\* The /train endpoint in front of the model.
NextApi == TrainFeedback \/ Update \/ Restart

SpecApi == Init /\ [][NextApi]_vars

\* ------------------------------------------------------------ concurrent calls
\* Two request threads call update and predict on the one model_instance.
\* Nothing in LinUCBModel locks, so the threads interleave between the
\* statements below.  An array is an object: self.A[arm_id] += m loads the
\* object, adds to it in place and stores the reference back.

\* The dict as arm -> array.
View(refs, h) == [arm_id \in DOMAIN refs |-> h[refs[arm_id]]]

\* The arms of a dict, in enumeration order.
KeysOf(d) == SelectSeq(ArmOrder, LAMBDA arm_id : arm_id \in DOMAIN d)

\* The position of an arm in a sequence of arms.
IndexOf(arm_id, seq) == CHOOSE i \in 1..Len(seq) : seq[i] = arm_id

\* The calls the threads make.
ConcOps == {"update", "predict"}
ConcContexts == {PriorX, [i \in 1..n_features |-> 1]}
ConcRewards == {2}

\* The stores the threads start on: empty (no file), and a loaded checkpoint.
InitConc ==
    \E file \in {NoFile, PriorStore.file} :
        LET m == load_model(file)
            ka == KeysOf(m.A)
            kb == KeysOf(m.b)
        IN  /\ A = m.A
            /\ b = m.b
            /\ disk = file
            /\ decision_logs = [r \in RecommendationIds |-> NoFeedback]
            /\ updates = 0
            /\ last = [NoCall EXCEPT !.op = "init", !.how = m.how]
            /\ heap = [i \in 1..(Len(ka) + Len(kb)) |->
                          IF i <= Len(ka) THEN m.A[ka[i]] ELSE m.b[kb[i - Len(ka)]]]
            /\ refA = [arm_id \in DOMAIN m.A |-> IndexOf(arm_id, ka)]
            /\ refb = [arm_id \in DOMAIN m.b |-> Len(ka) + IndexOf(arm_id, kb)]
            /\ threads = [t \in Threads |-> IdleThread]

\* The store as the dicts and the objects give it.
StoreView ==
    /\ A' = View(refA', heap')
    /\ b' = View(refb', heap')

\* Thread t moves to pc, with its other fields as in rec.
Goto(t, rec, pc) == threads' = [threads EXCEPT ![t] = [rec EXCEPT !.pc = pc]]

\* A request arrives: the thread starts update or predict (one candidate).
Call ==
    \E t \in Threads, op \in ConcOps, arm_id \in Arms, x \in ConcContexts,
       reward \in ConcRewards :
        /\ threads[t].pc = "idle"
        /\ Goto(t, [IdleThread EXCEPT !.op = op, !.arm_id = arm_id, !.x = x,
                                      !.reward = reward], "check")
        /\ UNCHANGED <<A, b, disk, decision_logs, updates, last, heap, refA, refb>>

\* After _get_or_init_arm: the first statement of the rest of the call.
AfterInit(op) == IF op = "update" THEN "loadA" ELSE "inv"

\* _get_or_init_arm: if arm_id not in self.A
CheckArm ==
    \E t \in Threads :
        /\ threads[t].pc = "check"
        /\ Goto(t, threads[t],
                IF threads[t].arm_id \notin DOMAIN refA THEN "initA"
                ELSE AfterInit(threads[t].op))
        /\ UNCHANGED <<A, b, disk, decision_logs, updates, last, heap, refA, refb>>

\* _get_or_init_arm: self.A[arm_id] = np.identity(self.n_features)
InitA ==
    \E t \in Threads :
        /\ threads[t].pc = "initA"
        /\ heap' = Append(heap, Identity(n_features))
        /\ refA' = (threads[t].arm_id :> Len(heap) + 1) @@ refA
        /\ Goto(t, threads[t], "initb")
        /\ UNCHANGED <<disk, decision_logs, updates, last, refb>>
        /\ StoreView

\* _get_or_init_arm: self.b[arm_id] = np.zeros(self.n_features)
Initb ==
    \E t \in Threads :
        /\ threads[t].pc = "initb"
        /\ heap' = Append(heap, Zeros(n_features))
        /\ refb' = (threads[t].arm_id :> Len(heap) + 1) @@ refb
        /\ Goto(t, threads[t], AfterInit(threads[t].op))
        /\ UNCHANGED <<disk, decision_logs, updates, last, refA>>
        /\ StoreView

\* update: self.A[arm_id] is loaded for  += np.outer(x, x)
LoadA ==
    \E t \in Threads :
        /\ threads[t].pc = "loadA"
        /\ Goto(t, [threads[t] EXCEPT !.ref = refA[threads[t].arm_id]], "addA")
        /\ UNCHANGED <<A, b, disk, decision_logs, updates, last, heap, refA, refb>>

\* update: the in-place add on the loaded A object
AddA ==
    \E t \in Threads :
        LET th == threads[t]
            xx == Outer(th.x, th.x)
        IN  /\ th.pc = "addA"
            /\ IF CanIAddMat(heap[th.ref], xx)
               THEN /\ heap' = [heap EXCEPT ![th.ref] = IAddMat(@, xx)]
                    /\ Goto(t, th, "storeA")
               ELSE /\ heap' = heap
                    /\ Goto(t, [th EXCEPT !.raised = "A+="], "done")
            /\ UNCHANGED <<disk, decision_logs, updates, last, refA, refb>>
            /\ StoreView

\* update: the reference is stored back into self.A[arm_id]
StoreA ==
    \E t \in Threads :
        /\ threads[t].pc = "storeA"
        /\ refA' = [refA EXCEPT ![threads[t].arm_id] = threads[t].ref]
        /\ Goto(t, threads[t], "loadb")
        /\ UNCHANGED <<disk, decision_logs, updates, last, heap, refb>>
        /\ StoreView

\* update: self.b[arm_id] is loaded for  += reward * x  (KeyError when absent)
Loadb ==
    \E t \in Threads :
        LET th == threads[t]
        IN  /\ th.pc = "loadb"
            /\ IF th.arm_id \in DOMAIN refb
               THEN Goto(t, [th EXCEPT !.ref = refb[th.arm_id]], "addb")
               ELSE Goto(t, [th EXCEPT !.raised = "b+="], "done")
            /\ UNCHANGED <<A, b, disk, decision_logs, updates, last, heap, refA, refb>>

\* update: the in-place add on the loaded b object
Addb ==
    \E t \in Threads :
        LET th == threads[t]
            rx == Scale(th.reward, th.x)
        IN  /\ th.pc = "addb"
            /\ IF CanIAddVec(heap[th.ref], rx)
               THEN /\ heap' = [heap EXCEPT ![th.ref] = IAddVec(@, rx)]
                    /\ Goto(t, th, "storeb")
               ELSE /\ heap' = heap
                    /\ Goto(t, [th EXCEPT !.raised = "b+="], "done")
            /\ UNCHANGED <<disk, decision_logs, updates, last, refA, refb>>
            /\ StoreView

\* update: the reference is stored back into self.b[arm_id]
Storeb ==
    \E t \in Threads :
        /\ threads[t].pc = "storeb"
        /\ refb' = [refb EXCEPT ![threads[t].arm_id] = threads[t].ref]
        /\ Goto(t, threads[t], "open")
        /\ UNCHANGED <<disk, decision_logs, updates, last, heap, refA>>
        /\ StoreView

\* save_model: open(self.model_path, 'wb') creates or truncates the file
OpenFile ==
    \E t \in Threads :
        /\ threads[t].pc = "open"
        /\ disk' = File(<<>>)
        /\ Goto(t, threads[t], "dumpA")
        /\ UNCHANGED <<A, b, decision_logs, updates, last, heap, refA, refb>>

\* save_model: pickle.dump pickles the 'A' dict into the writer's buffer
DumpA ==
    \E t \in Threads :
        /\ threads[t].pc = "dumpA"
        /\ Goto(t, [threads[t] EXCEPT !.blob =
                        <<<<"dict", 2>>, <<"str", "A">>>> \o PickleArms(A, 2)],
                "dumpb")
        /\ UNCHANGED <<A, b, disk, decision_logs, updates, last, heap, refA, refb>>

\* save_model: pickle.dump pickles the 'b' dict into the writer's buffer
Dumpb ==
    \E t \in Threads :
        /\ threads[t].pc = "dumpb"
        /\ Goto(t, [threads[t] EXCEPT !.blob =
                        @ \o <<<<"str", "b">>>> \o PickleArms(b, 1) \o <<<<"stop", 0>>>>],
                "write")
        /\ UNCHANGED <<A, b, disk, decision_logs, updates, last, heap, refA, refb>>

\* save_model: leaving the with block writes the buffer at offset 0 of the
\* file, over what another writer may have put there.
WriteFile ==
    \E t \in Threads :
        LET blob == threads[t].blob
        IN  /\ threads[t].pc = "write"
            /\ disk' = File(blob \o SubSeq(disk.data, Len(blob) + 1, Len(disk.data)))
            /\ Goto(t, threads[t], "done")
            /\ UNCHANGED <<A, b, decision_logs, updates, last, heap, refA, refb>>

\* predict: A_inv = np.linalg.inv(self.A[arm_id]) reads the A object
ReadA ==
    \E t \in Threads :
        /\ threads[t].pc = "inv"
        /\ Goto(t, [threads[t] EXCEPT !.usedA = heap[refA[threads[t].arm_id]]], "theta")
        /\ UNCHANGED <<A, b, disk, decision_logs, updates, last, heap, refA, refb>>

\* predict: theta = A_inv.dot(self.b[arm_id]) reads the b object (KeyError
\* when absent); the rest of predict works on these two values.
Readb ==
    \E t \in Threads :
        LET th == threads[t]
        IN  /\ th.pc = "theta"
            /\ IF th.arm_id \in DOMAIN refb
               THEN Goto(t, [th EXCEPT !.usedb = heap[refb[th.arm_id]]], "done")
               ELSE Goto(t, [th EXCEPT !.raised = "predict"], "done")
            /\ UNCHANGED <<A, b, disk, decision_logs, updates, last, heap, refA, refb>>

NextConc ==
    \/ Call \/ CheckArm \/ InitA \/ Initb
    \/ LoadA \/ AddA \/ StoreA \/ Loadb \/ Addb \/ Storeb
    \/ OpenFile \/ DumpA \/ Dumpb \/ WriteFile
    \/ ReadA \/ Readb

SpecConc == InitConc /\ [][NextConc]_vars

\* ------------------------------------------------------------ properties
\* The arm's arrays a call finds: the stored ones, or what lazy creation makes.
FoundA(arm_id) == IF arm_id \in DOMAIN A THEN A[arm_id] ELSE Identity(n_features)
Foundb(arm_id) == IF arm_id \in DOMAIN b THEN b[arm_id] ELSE Zeros(n_features)

\* The last call was an update that applied both increments (it returned, or
\* raised only in save_model).
UpdateApplied == last.op = "update" /\ last.raised \in {"", "save"}

\* The step is an update call that applied both increments.
UpdateAppliedStep == last'.op = "update" /\ last'.raised \in {"", "save"}

\* The step left the arrays of the arm named by the update at
\* A + x x^T and b + reward x, entry by entry.
IncrementsApplied ==
    LET arm_id == last'.arm_id
        x == last'.x
    IN  /\ arm_id \in DOMAIN A' /\ arm_id \in DOMAIN b'
        /\ \A i, j \in 1..n_features :
              A'[arm_id][i][j] = FoundA(arm_id)[i][j] + x[i] * x[j]
        /\ \A i \in 1..n_features :
              b'[arm_id][i] = Foundb(arm_id)[i] + last'.reward * x[i]

\* C2: an update with a vector of the configured length leaves the named arm
\* at exactly A + x x^T and b + reward x, whatever the reward (it is not
\* clamped or rescaled).
C2_UpdateRule ==
    [][(UpdateAppliedStep /\ Len(last'.x) = n_features) => IncrementsApplied]_vars

\* C2 witness: an update with a reward above 1 returned, and the reward went
\* into b unclamped.
C2_Witness ==
    /\ last.op = "update" /\ last.raised = ""
    /\ last.reward > 1 /\ Len(last.x) = n_features
    /\ \E i \in 1..n_features : b[last.arm_id][i] > 1

\* The list is in descending order of score.
IsDescending(result) ==
    \A i \in 1..(Len(result) - 1) : ScoreGE(result[i], result[i + 1])

\* C3: in every reachable store, for every candidate list, the list predict
\* returns is in descending order of score.
C3_PredictSorted ==
    \A arm_ids \in ArmLists :
        \A context_vectors \in ContextArrays(Len(arm_ids)) :
            LET r == predict(A, b, arm_ids, context_vectors)
            IN  ~r.raised => Len(r.result) = Len(arm_ids) /\ IsDescending(r.result)

\* C3 witness: after a predict call, a store in which some two candidates get
\* different scores with the better one given second.
C3_Witness ==
    /\ last.op = "predict" /\ last.raised = ""
    /\ \E arm_ids \in ArmLists :
          \E context_vectors \in ContextArrays(Len(arm_ids)) :
              LET r == predict(A, b, arm_ids, context_vectors)
              IN  /\ ~r.raised /\ Len(r.result) = 2
                  /\ r.result[1].id = arm_ids[2]
                  /\ ~ScoreGE(r.result[2], r.result[1])

\* The checkpoint file decodes to exactly the store in memory.
CheckpointIsMemory ==
    LET m == load_model(disk)
    IN  m.how = "loaded" /\ m.A = A /\ m.b = b

C5_RoundTrip ==
    LET m == load_model(save_model(A, b, disk, "ok").file)
    IN  /\ m.how = "loaded"
        /\ DOMAIN m.A = DOMAIN A /\ DOMAIN m.b = DOMAIN b
        /\ \A arm_id \in DOMAIN A : m.A[arm_id] = A[arm_id]
        /\ \A arm_id \in DOMAIN b : m.b[arm_id] = b[arm_id]
        /\ \A arm_ids \in ArmLists :
              \A context_vectors \in ContextArrays(Len(arm_ids)) :
                  predict(m.A, m.b, arm_ids, context_vectors).result
                      = predict(A, b, arm_ids, context_vectors).result

\* C5 witness: a restarted instance that loaded what an update of this run
\* saved: two arms, one of them with a non-diagonal A.
C5_Witness ==
    /\ last.op = "restart" /\ last.how = "loaded" /\ updates > 0
    /\ DOMAIN A = Arms
    /\ \E arm_id \in DOMAIN A : A[arm_id][1][2] # 0

\* C6: when load_model fails at construction, the store is empty: no arm in
\* A and no arm in b.
C6_FailedLoadIsEmpty ==
    (last.op \in {"init", "restart"} /\ last.how = "failed")
        => DOMAIN A = {} /\ DOMAIN b = {}

\* C7: when the write of save_model fails, update still returns without
\* raising, and its increments stay applied in memory.
C7_WriteFailureAbsorbed ==
    [][(UpdateAppliedStep /\ last'.io = "open_fails" /\ Len(last'.x) = n_features)
          => last'.raised = "" /\ IncrementsApplied]_vars

\* C8: predict and update raise for every context vector whose length is not
\* n_features.
C8_WrongLengthRaises ==
    /\ (last.op = "update" /\ Len(last.x) # n_features) => last.raised # ""
    /\ \A arm_ids \in ArmLists \ {<<>>} :
          \A context_vectors \in ContextArrays(Len(arm_ids)) :
              Len(context_vectors[1]) # n_features
                  => predict(A, b, arm_ids, context_vectors).raised

\* C1: a /train request answered with success has updated the model and
\* written the checkpoint.
C1_TrainUpdatesModel ==
    [][(last'.op = "train" /\ last'.status = 200)
          => /\ A' # A \/ b' # b
             /\ disk' = File(pickle_dump(A', b'))]_vars

\* The arrays an arm had when the threads started: the loaded ones, or what
\* lazy creation makes.
StartA(arm_id) ==
    IF last.how = "loaded" /\ arm_id \in DOMAIN PriorStore.A
    THEN PriorStore.A[arm_id] ELSE Identity(n_features)

Startb(arm_id) ==
    IF last.how = "loaded" /\ arm_id \in DOMAIN PriorStore.b
    THEN PriorStore.b[arm_id] ELSE Zeros(n_features)

\* The threads whose call is update(arm_id, ...).
Updaters(arm_id) ==
    {t \in Threads : threads[t].op = "update" /\ threads[t].arm_id = arm_id}

\* The arm's arrays after exactly the updates of the threads in S, applied to
\* what the arm had at the start.
AfterUpdatesA(arm_id, S) ==
    [i \in 1..n_features |-> [j \in 1..n_features |->
        LET RECURSIVE Sum(_)
            Sum(T) == IF T = {} THEN 0
                      ELSE LET t == CHOOSE u \in T : TRUE
                           IN  threads[t].x[i] * threads[t].x[j] + Sum(T \ {t})
        IN  StartA(arm_id)[i][j] + Sum(S)]]

AfterUpdatesb(arm_id, S) ==
    [i \in 1..n_features |->
        LET RECURSIVE Sum(_)
            Sum(T) == IF T = {} THEN 0
                      ELSE LET t == CHOOSE u \in T : TRUE
                           IN  threads[t].reward * threads[t].x[i] + Sum(T \ {t})
        IN  Startb(arm_id)[i] + Sum(S)]

\* C9: when two update calls on one arm ran concurrently and both returned,
\* the arm holds its prior A plus every call's x x^T and its prior b plus
\* every call's reward x.
C9_NoLostUpdates ==
    \A arm_id \in Arms :
        (/\ Updaters(arm_id) = Threads
         /\ \A t \in Threads : threads[t].pc = "done" /\ threads[t].raised = "")
            => /\ arm_id \in DOMAIN A /\ arm_id \in DOMAIN b
               /\ A[arm_id] = AfterUpdatesA(arm_id, Threads)
               /\ b[arm_id] = AfterUpdatesb(arm_id, Threads)

\* C10: the (A, b) a predict call scored an arm with is the arm's pair before
\* or after the update another thread makes on that arm, never the A of one
\* and the b of the other.
C10_NoTornRead ==
    \A t \in Threads :
        (/\ threads[t].op = "predict" /\ threads[t].pc = "done" /\ threads[t].raised = ""
         /\ Updaters(threads[t].arm_id) # {})
            => \E S \in SUBSET Updaters(threads[t].arm_id) :
                  /\ threads[t].usedA = AfterUpdatesA(threads[t].arm_id, S)
                  /\ threads[t].usedb = AfterUpdatesb(threads[t].arm_id, S)

\* C11: lazy creation is an atomic check-and-insert: once an arm has its A
\* (its b) array, no step of any call binds the arm to another array object,
\* so the arm is initialized once and an array that holds an increment is
\* never replaced by a new identity (zero) array.
C11_AtomicCreation ==
    [][/\ \A arm_id \in DOMAIN refA : refA'[arm_id] = refA[arm_id]
       /\ \A arm_id \in DOMAIN refb : refb'[arm_id] = refb[arm_id]]_vars

\* C12: an update call, however it ends, leaves the A and the b of every arm
\* other than arm_id as they were, and predict for any other arm returns the
\* same entry (score and confidence) after the update as before it.
C12_ArmsDisjoint ==
    [][last'.op = "update" =>
          /\ \A other \in DOMAIN A \ {last'.arm_id} :
                other \in DOMAIN A' /\ A'[other] = A[other]
          /\ \A other \in DOMAIN b \ {last'.arm_id} :
                other \in DOMAIN b' /\ b'[other] = b[other]
          /\ \A other \in DOMAIN A' \ {last'.arm_id} : other \in DOMAIN A
          /\ \A other \in DOMAIN b' \ {last'.arm_id} : other \in DOMAIN b
          /\ \A other \in Arms \ {last'.arm_id} :
                \A x \in Contexts :
                    predict(A', b', <<other>>, <<x>>).result
                        = predict(A, b, <<other>>, <<x>>).result]_vars

\* C12 witness: an update of one arm returned in a store that holds another
\* arm with learned state.
C12_Witness ==
    /\ last.op = "update" /\ last.raised = "" /\ Len(last.x) = n_features
    /\ \E other \in DOMAIN b \ {last.arm_id} :
          other \in DOMAIN A /\ b[other] # Zeros(n_features)
                              /\ A[other] # Identity(n_features)

\* ------------------------------------------------------------ crash
\* The process is killed at any point of the concurrent calls (every thread
\* dies with it, buffers unwritten) and started again: the new
\* LinUCBModel() loads whatever the file holds at that moment.
Crash ==
    LET m == load_model(disk)
        ka == KeysOf(m.A)
        kb == KeysOf(m.b)
    IN  /\ last.op # "crash"
        /\ A' = m.A
        /\ b' = m.b
        /\ heap' = [i \in 1..(Len(ka) + Len(kb)) |->
                       IF i <= Len(ka) THEN m.A[ka[i]] ELSE m.b[kb[i - Len(ka)]]]
        /\ refA' = [arm_id \in DOMAIN m.A |-> IndexOf(arm_id, ka)]
        /\ refb' = [arm_id \in DOMAIN m.b |-> Len(ka) + IndexOf(arm_id, kb)]
        /\ threads' = [t \in Threads |-> [IdleThread EXCEPT !.pc = "stopped"]]
        /\ last' = [NoCall EXCEPT !.op = "crash", !.how = m.how]
        /\ UNCHANGED <<disk, decision_logs, updates>>

NextCrash == NextConc \/ Crash

SpecCrash == InitConc /\ [][NextCrash]_vars

\* One update call is inside the persistence write of save_model (the file
\* is open, the with block has not been left) and no other call is running.
InWrite ==
    \E t \in Threads :
        /\ threads[t].op = "update" /\ threads[t].pc \in {"dumpA", "dumpb", "write"}
        /\ \A u \in Threads \ {t} : threads[u].pc = "idle"

\* C13: when the process is killed during the persistence write of an update
\* and the service had loaded a complete checkpoint, the restart loads a
\* complete store: the one from before the update or the one after it.
C13_CrashSafe ==
    [][(last'.op = "crash" /\ last.how = "loaded" /\ InWrite)
          => /\ last'.how = "loaded"
             /\ \/ A' = PriorStore.A /\ b' = PriorStore.b
                \/ A' = A /\ b' = b]_vars

\* ------------------------------------------------------------ fresh service
\* The service started with no checkpoint file: every store it reaches is one
\* the program built itself, by predict, update and restarts.
InitFresh == Init /\ disk = NoFile

SpecFresh == InitFresh /\ [][Next]_vars

\* C14: predict for an arm that is not in the store creates it with
\* A = identity and b = zero vector and returns, for every x of the
\* configured length, mean 0 and uncertainty alpha * sqrt(x.x / 1) =
\* alpha * ||x||: the score is the exploration bonus alone.
C14_ColdStart ==
    \A arm_id \in Arms \ DOMAIN A :
        \A x \in Contexts :
            LET r == predict(A, b, <<arm_id>>, <<x>>)
            IN  /\ ~r.raised
                /\ r.A[arm_id] = [i \in 1..n_features |->
                                     [j \in 1..n_features |-> IF i = j THEN 1 ELSE 0]]
                /\ r.b[arm_id] = [i \in 1..n_features |-> 0]
                /\ Len(r.result) = 1
                /\ r.result[1].id = arm_id
                /\ r.result[1].mn = 0
                /\ r.result[1].d = 1
                /\ r.result[1].q = Dot(x, x)

\* C14 witness: predict has just created an arm at (identity, zero) while
\* another identifier is still unseen.
C14_Witness ==
    /\ last.op = "predict" /\ last.raised = ""
    /\ Arms \ DOMAIN A # {}
    /\ \E arm_id \in DOMAIN A :
          /\ arm_id \in DOMAIN b
          /\ A[arm_id] = Identity(n_features) /\ b[arm_id] = Zeros(n_features)

\* C15: an update that names an arm the store does not hold, with a vector
\* of the configured length, raises nothing on account of the arm: the call
\* gets past the lazy creation and both increments (it returns when the file
\* can be written) and leaves the arm at A = I + x x^T and b = reward x.
C15_UpdateUnseenArm ==
    [][(/\ last'.op = "update"
        /\ last'.arm_id \notin DOMAIN A /\ last'.arm_id \notin DOMAIN b
        /\ Len(last'.x) = n_features)
          => LET arm_id == last'.arm_id
                 x == last'.x
             IN  /\ last'.raised \in {"", "save"}
                 /\ last'.io = "ok" => last'.raised = ""
                 /\ arm_id \in DOMAIN A' /\ arm_id \in DOMAIN b'
                 /\ A'[arm_id] = [i \in 1..n_features |-> [j \in 1..n_features |->
                                     (IF i = j THEN 1 ELSE 0) + x[i] * x[j]]]
                 /\ b'[arm_id] = [i \in 1..n_features |-> last'.reward * x[i]]]_vars

\* C15 witness: the first call of the service was an update, it returned, and
\* the arm it created holds a non-zero increment.
C15_Witness ==
    /\ last.op = "update" /\ last.raised = "" /\ Len(last.x) = n_features
    /\ DOMAIN A = {last.arm_id} /\ DOMAIN b = {last.arm_id}
    /\ A[last.arm_id] = IAddMat(Identity(n_features), Outer(last.x, last.x))
    /\ b[last.arm_id] = Scale(last.reward, last.x)
    /\ b[last.arm_id] # Zeros(n_features)

\* C16: a predict or update call, however it ends, removes no arm: every
\* identifier in A (in b) before the call is in A (in b) after it.
C16_ArmsNeverRemoved ==
    [][last'.op \in {"predict", "update"}
          => /\ DOMAIN A \subseteq DOMAIN A'
             /\ DOMAIN b \subseteq DOMAIN b']_vars

\* C16 witness: a call has just added an arm to a store that held another
\* arm with learned state, and both are present.
C16_Witness ==
    /\ last.op \in {"predict", "update"}
    /\ DOMAIN A = Arms /\ DOMAIN b = Arms
    /\ \E arm_id, other \in Arms :
          /\ A[arm_id] # Identity(n_features)
          /\ other # arm_id /\ A[other] = Identity(n_features)

\* (Aarm, barm) is the identity plus the sum of x x^T, and the sum of
\* reward x, over some sequence of at most kmax updates (x, reward) with
\* vectors of the configured length.
IsSumOfUpdates(Aarm, barm, kmax) ==
    \E k \in 0..kmax :
        \E seq \in [1..k -> Contexts \X Rewards] :
            LET RECURSIVE SumA(_, _, _)
                SumA(m, i, j) ==
                    IF m > k THEN 0
                    ELSE seq[m][1][i] * seq[m][1][j] + SumA(m + 1, i, j)
                RECURSIVE Sumb(_, _)
                Sumb(m, i) ==
                    IF m > k THEN 0
                    ELSE seq[m][2] * seq[m][1][i] + Sumb(m + 1, i)
            IN  /\ \A i, j \in 1..n_features :
                      Aarm[i][j] = (IF i = j THEN 1 ELSE 0) + SumA(1, i, j)
                /\ \A i \in 1..n_features : barm[i] = Sumb(1, i)

C18_UncertaintyShrinks ==
    \A arm_id \in Arms :
        (arm_id \in DOMAIN A => arm_id \in DOMAIN b) =>
            \A x \in Contexts, reward \in Rewards, io \in IOOutcomes :
                LET before == predict(A, b, <<arm_id>>, <<x>>)
                    u == update(before.A, before.b, disk, arm_id, x, reward, io)
                    after == predict(u.A, u.b, <<arm_id>>, <<x>>)
                IN  /\ ~before.raised /\ ~after.raised
                    /\ u.raised \in {"", "save"}
                    /\ UncertaintyGE(before.result[1], after.result[1])

\* C18 witness: an update has returned, and the uncertainty of its (arm, x)
\* is now strictly below the one a new arm has for that x.
C18_Witness ==
    /\ last.op = "update" /\ last.raised = "" /\ Len(last.x) = n_features
    /\ last.arm_id \in DOMAIN A /\ last.arm_id \in DOMAIN b
    /\ ~UncertaintyGE(ScoreEntry(last.arm_id, A[last.arm_id], b[last.arm_id], last.x),
                      ScoreEntry(last.arm_id, Identity(n_features),
                                 Zeros(n_features), last.x))

\* The arm is fresh: not in the store, or in it as lazy creation left it.
Fresh(arm_id) ==
    \/ arm_id \notin DOMAIN A /\ arm_id \notin DOMAIN b
    \/ /\ arm_id \in DOMAIN A /\ arm_id \in DOMAIN b
       /\ A[arm_id] = Identity(n_features) /\ b[arm_id] = Zeros(n_features)

\* C19: for every fresh arm, every x of the configured length and rewards
\* r1 < r2: of two copies of the store, one updated with (arm, x, r1) and
\* one with (arm, x, r2), the mean predict computes for (arm, x) on the
\* second is greater than or equal to the mean on the first.
C19_RewardDirection ==
    \A arm_id \in Arms :
        Fresh(arm_id) =>
            \A x \in Contexts, r1, r2 \in Rewards :
                r1 < r2 =>
                    LET c1 == update(A, b, disk, arm_id, x, r1, "ok")
                        c2 == update(A, b, disk, arm_id, x, r2, "ok")
                        p1 == predict(c1.A, c1.b, <<arm_id>>, <<x>>)
                        p2 == predict(c2.A, c2.b, <<arm_id>>, <<x>>)
                    IN  /\ c1.raised = "" /\ c2.raised = ""
                        /\ ~p1.raised /\ ~p2.raised
                        /\ p2.result[1].mn * p1.result[1].d
                               >= p1.result[1].mn * p2.result[1].d

\* C19 witness: a fresh arm was updated with the highest reward and a
\* non-zero x, and its mean for that x is now above 0, the mean a zero
\* reward leaves.
C19_Witness ==
    /\ last.op = "update" /\ last.raised = "" /\ Len(last.x) = n_features
    /\ \A r \in Rewards : r <= last.reward
    /\ last.arm_id \in DOMAIN A /\ last.arm_id \in DOMAIN b
    /\ A[last.arm_id] = IAddMat(Identity(n_features), Outer(last.x, last.x))
    /\ ScoreEntry(last.arm_id, A[last.arm_id], b[last.arm_id], last.x).mn > 0
    /\ \E other \in Arms : Fresh(other)

\* C20: for every candidate list and context array, a predict call that
\* returns, followed at once by a second predict call with the same
\* arguments (on the store the first call left, arms it created included),
\* gives a second call that returns the identical list and leaves the store
\* as the first call left it.
C20_PredictTwice ==
    \A arm_ids \in ArmLists :
        \A context_vectors \in ContextArrays(Len(arm_ids)) :
            LET p1 == predict(A, b, arm_ids, context_vectors)
                p2 == predict(p1.A, p1.b, arm_ids, context_vectors)
            IN  ~p1.raised =>
                    /\ ~p2.raised
                    /\ p2.result = p1.result
                    /\ p2.A = p1.A /\ p2.b = p1.b

\* C20 witness: a predict call has returned and left a lazily created arm
\* next to an arm with learned state.
C20_Witness ==
    /\ last.op = "predict" /\ last.raised = ""
    /\ \E arm_id, other \in DOMAIN A :
          /\ arm_id \in DOMAIN b /\ other \in DOMAIN b
          /\ A[arm_id] = Identity(n_features) /\ b[arm_id] = Zeros(n_features)
          /\ A[other] # Identity(n_features) /\ b[other] # Zeros(n_features)

\* ------------------------------------------------------------ singular A
\* Singular matrices an A could be: zero, all ones, and a single 1 on the
\* diagonal.  np.linalg.inv raises LinAlgError for each of them.
SingularMatrices ==
    {[i \in 1..n_features |-> [j \in 1..n_features |-> 0]],
     [i \in 1..n_features |-> [j \in 1..n_features |-> 1]],
     Outer(PriorX, PriorX)}

\* C21: in every store the program reaches by updates (updates with the zero
\* vector included) every A is invertible, and predict with vectors of the
\* configured length does not raise and returns, for every candidate, a
\* finite score (a positive denominator and a non-negative variance); for a
\* singular A the pseudo-inverse is taken and the entry is finite as well.
C21_SingularResilience ==
    /\ \A arm_id \in DOMAIN A : Det(A[arm_id]) > 0
    /\ \A arm_ids \in ArmLists :
          \A context_vectors \in [1..Len(arm_ids) -> Contexts] :
              LET r == predict(A, b, arm_ids, context_vectors)
              IN  /\ ~r.raised
                  /\ Len(r.result) = Len(arm_ids)
                  /\ \A i \in 1..Len(r.result) :
                        r.result[i].d > 0 /\ r.result[i].q >= 0
    /\ \A M \in SingularMatrices :
          /\ Det(M) = 0
          /\ \A x \in Contexts, barm \in Contexts :
                LET e == ScoreEntry("e1", M, barm, x)
                IN  e.d > 0 /\ e.q >= 0

\* C21 witness: an update with the zero feature vector has returned, and the
\* arm it named is in the store with an A that is still the identity.
C21_Witness ==
    /\ last.op = "update" /\ last.raised = ""
    /\ last.x = Zeros(n_features)
    /\ last.arm_id \in DOMAIN A /\ last.arm_id \in DOMAIN b
    /\ A[last.arm_id] = Identity(n_features)
    /\ ScoreEntry(last.arm_id, A[last.arm_id], b[last.arm_id], PriorX).d > 0

\* ------------------------------------------------------------ feedback rewards
\* The rewards a feedback request documents: 1.0 (accepted), 0.0 (rejected).
FeedbackRewards == {0, 1}

\* model_instance.update(arm_id, context_vector, reward) with the reward of a
\* feedback request.
UpdateFeedback ==
    /\ updates < MaxUpdates
    /\ \E arm_id \in Arms, x \in Vectors, reward \in FeedbackRewards, io \in IOOutcomes :
            \E r \in {update(A, b, disk, arm_id, x, reward, io)} :
                /\ A' = r.A
                /\ b' = r.b
                /\ disk' = r.file
                /\ updates' = updates + 1
                /\ last' = [NoCall EXCEPT !.op = "update", !.raised = r.raised,
                                          !.arm_id = arm_id, !.x = x,
                                          !.reward = reward, !.io = io]
                /\ UNCHANGED decision_logs
                /\ UNCHANGED concVars

NextFeedback == Predict \/ UpdateFeedback \/ Restart

\* The service started with no checkpoint file and trained with the rewards
\* of feedback requests.
SpecFeedback == InitFresh /\ [][NextFeedback]_vars

\* mean + (aNum/aDen) * sqrt(var) >= cNum/cDen for the entry e: the score of
\* an instance built with alpha = aNum/aDen is at least cNum/cDen.
ScoreAtLeast(e, aNum, aDen, cNum, cDen) ==
    RootGE(aDen * (e.mn * cDen - cNum * e.d), aNum * aNum * cDen * cDen * e.d * e.q, 0)

\* mean + (aNum/aDen) * sqrt(var) <= cNum/cDen for the entry e.
ScoreAtMost(e, aNum, aDen, cNum, cDen) ==
    RootGE(aDen * (cNum * e.d - e.mn * cDen), 0, aNum * aNum * cDen * cDen * e.d * e.q)

\* C22: the worked example, n = 2 and alpha = 1.  For every fresh arm,
\* predict with x = [1, 0] gives mean 0, squared uncertainty 1 and score 1;
\* update(arm, [1, 0], 1) then leaves A = [[2,0],[0,1]] and b = [1,0]; and
\* predict with the same x then gives mean 1/2, squared uncertainty 1/2 and
\* the score 1/2 + 1/sqrt(2), which lies between 1.2071 and 1.2072.
C22_WorkedExample ==
    \A arm_id \in Arms :
        Fresh(arm_id) =>
            LET x == <<1, 0>>
                p0 == predict(A, b, <<arm_id>>, <<x>>)
                u == update(p0.A, p0.b, disk, arm_id, x, 1, "ok")
                p1 == predict(u.A, u.b, <<arm_id>>, <<x>>)
                e0 == p0.result[1]
                e1 == p1.result[1]
            IN  /\ n_features = 2
                /\ ~p0.raised /\ u.raised = "" /\ ~p1.raised
                /\ e0.mn = 0
                /\ e0.q = e0.d
                /\ ScoreAtLeast(e0, 1, 1, 1, 1) /\ ScoreAtMost(e0, 1, 1, 1, 1)
                /\ u.A[arm_id] = <<<<2, 0>>, <<0, 1>>>>
                /\ u.b[arm_id] = <<1, 0>>
                /\ 2 * e1.mn = e1.d
                /\ 2 * e1.q = e1.d
                /\ ScoreAtLeast(e1, 1, 1, 12071, 10000)
                /\ ScoreAtMost(e1, 1, 1, 12072, 10000)
                /\ ~ScoreAtLeast(e1, 1, 1, 12072, 10000)

\* C22 witness: update(arm, [1, 0], 1) on a fresh arm has returned and left
\* A = [[2,0],[0,1]] and b = [1,0], and another identifier is still fresh.
C22_Witness ==
    /\ last.op = "update" /\ last.raised = ""
    /\ last.x = <<1, 0>> /\ last.reward = 1
    /\ last.arm_id \in DOMAIN A /\ last.arm_id \in DOMAIN b
    /\ A[last.arm_id] = <<<<2, 0>>, <<0, 1>>>>
    /\ b[last.arm_id] = <<1, 0>>
    /\ \E other \in Arms \ {last.arm_id} : Fresh(other)

\* C23: in every reachable store, predict with an empty candidate list
\* (whatever the context array holds) does not raise, returns the empty list
\* and leaves A and b as they were.
C23_EmptyCandidates ==
    \A context_vectors \in ContextArrays(0) \cup ContextArrays(1) :
        LET r == predict(A, b, <<>>, context_vectors)
        IN  /\ ~r.raised
            /\ r.result = <<>>
            /\ r.A = A /\ r.b = b

\* C23 witness: a predict call has returned on a store that is still empty,
\* which only a call with no candidate leaves so.
C23_Witness ==
    /\ last.op = "predict" /\ last.raised = ""
    /\ DOMAIN A = {} /\ DOMAIN b = {}

\* ------------------------------------------------------------ FeatureBuilder
\* A feature is kept as the exact fraction num/den of the float the program
\* computes.

\* self.priority_map and self.role_map, in tenths.
priority_map == [Low |-> 2, Medium |-> 5, High |-> 8, Critical |-> 10]
role_map == [Intern |-> 2, Junior |-> 4, Mid |-> 6, Senior |-> 8, Lead |-> 10]

\* d.get(key, 0.5) for a map in tenths.
GetOrHalf(d, key) ==
    IF key \in DOMAIN d THEN [num |-> d[key], den |-> 10] ELSE [num |-> 5, den |-> 10]

\* The elements of a list.
Range(list) == {list[i] : i \in 1..Len(list)}

\* _encode_skills(task_skills, emp_skills)
encode_skills(task_skills, emp_skills) ==
    IF task_skills = <<>> THEN [num |-> 1, den |-> 1]
    ELSE LET match_count ==
                 Len(SelectSeq(task_skills, LAMBDA s : s \in Range(emp_skills)))
         IN  [num |-> match_count, den |-> Len(task_skills)]

\* build_context_vector(task, employee): the vector, or the statement whose
\* float division raised ZeroDivisionError.
build_context_vector(task, employee) ==
    LET f_priority == GetOrHalf(priority_map, task.priority)
        f_complexity == [num |-> task.complexity, den |-> 10]
        f_deadline == [num |-> 1, den |-> task.deadline_hours + 1]
        f_load == [num |-> 1, den |-> employee.current_load + 1]
        f_role == GetOrHalf(role_map, employee.role_level)
        f_match == encode_skills(task.skills_required, employee.skills)
    IN  IF f_deadline.den = 0 THEN [raised |-> "f_deadline", vector |-> <<>>]
        ELSE IF f_load.den = 0 THEN [raised |-> "f_load", vector |-> <<>>]
        ELSE [raised |-> "",
              vector |-> <<f_priority, f_complexity, f_deadline, f_load,
                           f_role, f_match>>]

\* The skill lists requests carry: empty, plain, and with a skill repeated.
SkillLists ==
    {<<>>, <<"Python">>, <<"Python", "SQL">>, <<"Python", "Python", "SQL">>,
     <<"SQL", "React", "SQL">>}

\* The integers requests carry for deadline_hours and current_load: the
\* fields are declared int, with no lower bound.
HourValues == {-2, -1, 0, 3}
LoadValues == {-1, 0, 2}

\* TaskFeatures and EmployeeCandidate objects that pass validation (the
\* fields build_context_vector reads).
Tasks ==
    [priority : {"High", "Urgent"}, complexity : {5},
     deadline_hours : HourValues, skills_required : SkillLists]

Employees ==
    [current_load : LoadValues, skills : SkillLists, role_level : {"Senior", "Principal"}]

\* feature_builder.build_context_vector(request.task, cand), as the /predict
\* endpoint calls it for a candidate.
BuildContextVector ==
    \E task \in Tasks, employee \in Employees :
        \E r \in {build_context_vector(task, employee)} :
            /\ last' = [NoCall EXCEPT !.op = "build_context_vector",
                                      !.raised = r.raised, !.task = task,
                                      !.employee = employee, !.vector = r.vector]
            /\ UNCHANGED <<A, b, disk, decision_logs, updates>>
            /\ UNCHANGED concVars

NextEncoder == BuildContextVector

\* The encoder in the started service.
SpecEncoder == InitFresh /\ [][NextEncoder]_vars

\* C24: for every deadline_hours and current_load the descriptors accept,
\* build_context_vector does not raise and returns 1/(hours + 1) as the
\* urgency feature and 1/(load + 1) as the load feature.
C24_NoDivisionByZero ==
    last.op = "build_context_vector"
        => /\ last.raised = ""
           /\ last.vector[3] = [num |-> 1, den |-> last.task.deadline_hours + 1]
           /\ last.vector[3].den # 0
           /\ last.vector[4] = [num |-> 1, den |-> last.employee.current_load + 1]
           /\ last.vector[4].den # 0

\* C25: the skill-overlap feature is 1 when the task requires no skill and
\* otherwise |required \cap held| / |required| with both lists taken as sets,
\* and it lies in [0, 1].
C25_SkillOverlap ==
    (last.op = "build_context_vector" /\ last.raised = "")
        => LET required == Range(last.task.skills_required)
               held == Range(last.employee.skills)
               f_match == last.vector[6]
           IN  /\ f_match.den > 0
               /\ 0 <= f_match.num /\ f_match.num <= f_match.den
               /\ required = {} => f_match.num = f_match.den
               /\ required # {} =>
                     f_match.num * Cardinality(required)
                         = Cardinality(required \cap held) * f_match.den

\* ------------------------------------------------------------ ties
\* Candidate lists of two different arms, in both orders.
PairLists == {<<"e1", "e2">>, <<"e2", "e1">>}

\* The two entries have equal scores.
ScoreEq(s1, s2) == ScoreGE(s1, s2) /\ ScoreGE(s2, s1)

\* C26: in every reachable store, for every list of two candidates and all
\* vectors of the configured length, two entries of the result with equal
\* scores stand in the order their identifiers have in arm_ids.
C26_TiesKeepInputOrder ==
    \A arm_ids \in PairLists :
        \A context_vectors \in [1..Len(arm_ids) -> Contexts] :
            LET r == predict(A, b, arm_ids, context_vectors)
            IN  ~r.raised =>
                    \A i, j \in 1..Len(r.result) :
                        (i < j /\ ScoreEq(r.result[i], r.result[j]))
                            => IndexOf(r.result[i].id, arm_ids)
                                   < IndexOf(r.result[j].id, arm_ids)

\* C26 witness: after an update and a predict call, a store with learned
\* state in which the candidates of a list that names e2 first get equal
\* scores, and e2 comes first in the result.
C26_Witness ==
    /\ last.op = "predict" /\ last.raised = "" /\ updates > 0
    /\ \E arm_id \in DOMAIN A : A[arm_id] # Identity(n_features)
    /\ \E context_vectors \in [1..2 -> Contexts] :
          LET r == predict(A, b, <<"e2", "e1">>, context_vectors)
          IN  /\ ~r.raised /\ Len(r.result) = 2
              /\ ScoreEq(r.result[1], r.result[2])
              /\ r.result[1].id = "e2"

\* C27: in every reachable state, whatever file the instance was built on,
\* the arms that have an A are the arms that have a b, and predict and
\* update with a vector of the configured length do not fail on an arm of
\* the store.
C27_SameArms ==
    /\ DOMAIN A = DOMAIN b
    /\ \A arm_id \in DOMAIN A \cup DOMAIN b :
          \A x \in Contexts :
              /\ ~predict(A, b, <<arm_id>>, <<x>>).raised
              /\ update(A, b, disk, arm_id, x, 0, "ok").raised = ""

\* C28: a predict call, however it ends, leaves the A and the b of every arm
\* the store held as they were, adds nothing but A = identity and b = zero
\* vector for identifiers the store did not hold, and leaves the checkpoint
\* file as it was.
C28_PredictReadsOnly ==
    [][last'.op = "predict" =>
          /\ \A arm_id \in DOMAIN A : arm_id \in DOMAIN A' /\ A'[arm_id] = A[arm_id]
          /\ \A arm_id \in DOMAIN b : arm_id \in DOMAIN b' /\ b'[arm_id] = b[arm_id]
          /\ \A arm_id \in DOMAIN A' \ DOMAIN A :
                /\ A'[arm_id] = Identity(n_features)
                /\ arm_id \in DOMAIN b' /\ arm_id \notin DOMAIN b
          /\ \A arm_id \in DOMAIN b' \ DOMAIN b :
                /\ b'[arm_id] = Zeros(n_features)
                /\ arm_id \in DOMAIN A' /\ arm_id \notin DOMAIN A
          /\ disk' = disk]_vars

\* C28 witness: on a store loaded from a checkpoint, a predict call has
\* added a second arm at (identity, zero); the loaded arm and the file are
\* as they were loaded.
C28_Witness ==
    /\ last.op = "predict" /\ updates = 0
    /\ disk = PriorStore.file
    /\ DOMAIN A = Arms /\ DOMAIN b = Arms
    /\ A["e1"] = PriorStore.A["e1"] /\ b["e1"] = PriorStore.b["e1"]
    /\ A["e2"] = Identity(n_features) /\ b["e2"] = Zeros(n_features)

\* C29: an update call that raises leaves the store and the checkpoint file
\* exactly as they were before the call: no arm added, no A or b changed,
\* nothing written.
C29_FailedUpdateNoEffect ==
    [][(last'.op = "update" /\ last'.raised # "")
          => A' = A /\ b' = b /\ disk' = disk]_vars

\* Every thread made an update call, and every call has returned.
AllUpdatesReturned ==
    \A t \in Threads :
        threads[t].op = "update" /\ threads[t].pc = "done" /\ threads[t].raised = ""

\* C30: when the concurrent update calls (on one arm or on different arms)
\* have all returned, the checkpoint file loads, and the store it loads to
\* holds, for every arm that was updated, the arm's start value plus the
\* increments of every one of those calls.
C30_CheckpointHasEveryUpdate ==
    AllUpdatesReturned =>
        LET m == load_model(disk)
        IN  /\ m.how = "loaded"
            /\ \A arm_id \in Arms :
                  Updaters(arm_id) # {} =>
                      /\ arm_id \in DOMAIN m.A /\ arm_id \in DOMAIN m.b
                      /\ m.A[arm_id] = AfterUpdatesA(arm_id, Updaters(arm_id))
                      /\ m.b[arm_id] = AfterUpdatesb(arm_id, Updaters(arm_id))

====
